---- MODULE Spec2Model ----
(***************************************************************************)
(* Project modification history statistics: one run of                     *)
(* ProjectModificationAnalyzer.analyze over a tree of project directories, *)
(* with the per-project aggregation of Project.analyze_directory and the   *)
(* two CSV write strategies; the repository metadata queries that name    *)
(* the report; and discovery and ignore filtering of the single-file       *)
(* script, run on the same tree.                                           *)
(***************************************************************************)
EXTENDS Integers, Sequences, FiniteSets, TLC

VARIABLES
    years,                \* ProjectModificationAnalyzer.years (the window)
    csv_headers,          \* ProjectModificationAnalyzer.csv_headers
    ignore_patterns,      \* ProjectModificationAnalyzer.ignore_patterns
    write_while_analyze,  \* argument of analyze()
    tree,                 \* what os.walk(root) yields: <<[dirpath, filenames]>>
    gitlog,               \* per walked directory: what `git log` answers there
    fs,                   \* the output directory: path -> NoFile or lines
    projects,             \* ProjectModificationAnalyzer.projects (Project objects)
    filtered,             \* ProjectModificationAnalyzer.filtered (indices of projects)
    ignored,              \* ProjectModificationAnalyzer.ignored
    pc,                   \* position of the run
    idx,                  \* loop index over filtered
    modification_dates,   \* local of Project.analyze_directory
    data,                 \* rows buffered by _aggregate_modifications
    out_path,             \* local out_path of the write strategy
    result,               \* value returned by the write strategy
    opens,                \* log of header open attempts: <<[path, outcome]>>
    appends,              \* log of row appends: <<[rows, path, written, queried]>>
    queries,              \* log of history queries: <<project index>>
    prior,                \* the runs that ended before this one, and the
                          \* directory they all started from
    selected_exts,        \* ProjectModificationAnalyzer.selected_exts
    repo,                 \* what git answers to the branch, symbolic-ref
                          \* and commit-id queries at the root
    script,               \* the single-file script run on the same tree:
                          \* its position, proj_dirs and ignored_list
    cli                   \* whether the run was started through main(), and
                          \* its --project-type values (args.project_type)

vars == <<years, csv_headers, ignore_patterns, write_while_analyze, tree, gitlog, fs, projects,
          filtered, ignored, pc, idx, modification_dates, data, out_path,
          result, opens, appends, queries, prior, selected_exts, repo, script,
          cli>>

\* ------------------------------------------------------------------ bounds
MaxYears == 6
MaxProjects == 2
MaxCommits == 3
MaxMatchDirs == 1

\* --------------------------------------------------------------- sequences
RECURSIVE SumSeq(_)
SumSeq(s) == IF s = <<>> THEN 0 ELSE s[1] + SumSeq(Tail(s))

Range(s) == {s[i] : i \in 1..Len(s)}

Min(a, b) == IF a <= b THEN a ELSE b

SeqsUpTo(S, n) == UNION {[1..k -> S] : k \in 0..n}

\* A Python dict keeps its keys in insertion order: keys is that order, val
\* the mapping.
DictFromKeys(ks, v) == [keys |-> ks, val |-> [k \in Range(ks) |-> v]]

DictValues(d) == [i \in 1..Len(d.keys) |-> d.val[d.keys[i]]]

\* dict.update(other) for dicts with disjoint key sets
DictUpdate(d, other) ==
    [keys |-> d.keys \o other.keys,
     val |-> [k \in Range(d.keys) \cup Range(other.keys) |->
                 IF k \in Range(other.keys) THEN other.val[k] ELSE d.val[k]]]

\* ------------------------------------------------------------ year labels
\* str(current_year - i) for i = 0, 1, ...: the labels of the window, most
\* recent first.
YearStr == <<"2025", "2024", "2023", "2022", "2021", "2020", "2019", "2018",
             "2017", "2016">>

AccName == <<"Acc_1", "Acc_2", "Acc_3", "Acc_4", "Acc_5", "Acc_6", "Acc_7",
             "Acc_8", "Acc_9", "Acc_10">>

get_year_window(year_range) == [i \in 1..year_range |-> YearStr[i]]

\* A line of `git log --date=short` output is a sequence of fields and "-"
\* separators; the empty line is <<>>.
Date(y, m, d) == <<y, "-", m, "-", d>>

LogLines == {Date("2025", "06", "01"), Date("2023", "12", "31"),
             Date("2019", "01", "15"), <<>>}

\* date.split("-")[0]: the first field, or the empty string when the line
\* is empty or starts with a separator
YearOf(date) == IF date = <<>> \/ date[1] = "-" THEN "" ELSE date[1]

\* ---------------------------------------------------------------- Project
ACC_MAX_YEARS == 5

NewProject(proj_dir, projectfiles, yrs) ==
    LET acc_len == Min(ACC_MAX_YEARS, Len(yrs))
    IN [rel_dir |-> proj_dir,
        projectfiles |-> projectfiles,
        total_modifications |-> 0,
        year_counts |-> DictFromKeys(yrs, 0),
        acc_len |-> acc_len,
        accumulators |-> DictFromKeys([i \in 1..acc_len |-> AccName[i]], 0)]

\* subprocess_check runs git with check=True and text=True: the outcome is
\* the completed process ("ok") or one of the exceptions it raises.
Outcomes == {"ok", "CalledProcessError", "OSError", "UnicodeDecodeError"}

\* Only OSError caught: a non-zero exit would escape
CaughtOnlyOSError == {"OSError"}

\* The exceptions _get_git_modification_dates catches:
\* (subprocess.SubprocessError, OSError)
CaughtByGitDates == {"CalledProcessError", "OSError"}

\* [date for date in result.stdout.splitlines() if date]
NonEmptyLines(lines) == SelectSeq(lines, LAMBDA l : l # <<>>)

\* The tally with the membership test dropped: a year outside the window
\* lands in the oldest bucket
RECURSIVE TallyYearCountsUnfiltered(_, _)
TallyYearCountsUnfiltered(year_counts, dates) ==
    IF dates = <<>> THEN year_counts
    ELSE LET y == YearOf(dates[1])
             oldest == year_counts.keys[Len(year_counts.keys)]
             next == IF y \in Range(year_counts.keys)
                     THEN [year_counts EXCEPT !.val[y] = @ + 1]
                     ELSE [year_counts EXCEPT !.val[oldest] = @ + 1]
         IN TallyYearCountsUnfiltered(next, Tail(dates))

\* The tally run over the raw lines twice
RECURSIVE TallyYearCountsTwice(_, _)
TallyYearCountsTwice(year_counts, dates) ==
    IF dates = <<>> THEN year_counts
    ELSE LET y == YearOf(dates[1])
             next == IF y \in Range(year_counts.keys)
                     THEN [year_counts EXCEPT !.val[y] = @ + 2]
                     ELSE year_counts
         IN TallyYearCountsTwice(next, Tail(dates))

\* Project._tally_year_counts: the new year_counts
RECURSIVE TallyYearCounts(_, _)
TallyYearCounts(year_counts, dates) ==
    IF dates = <<>> THEN year_counts
    ELSE LET y == YearOf(dates[1])
             next == IF y \in Range(year_counts.keys)
                     THEN [year_counts EXCEPT !.val[y] = @ + 1]
                     ELSE year_counts
         IN TallyYearCounts(next, Tail(dates))

\* d[key] = v
DictSet(d, key, v) ==
    IF key \in Range(d.keys) THEN [d EXCEPT !.val[key] = v]
    ELSE DictUpdate(d, [keys |-> <<key>>, val |-> [k \in {key} |-> v]])

\* Project._compute_accumulators: the loop from k on, with the running sum
RECURSIVE AccLoop(_, _, _, _, _)
AccLoop(acc, vals, k, running, acc_len) ==
    IF k > acc_len THEN acc
    ELSE LET r == running + vals[k]
         IN AccLoop(DictSet(acc, AccName[k], r), vals, k + 1, r, acc_len)

\* The accumulators without the running sum: Acc_k is bucket k alone
ComputeAccumulatorsPerYear(p) ==
    LET vals == DictValues(p.year_counts)
    IN [p.accumulators EXCEPT
           !.val = [a \in DOMAIN @ |->
                       vals[CHOOSE k \in 1..p.acc_len : AccName[k] = a]]]

ComputeAccumulators(p) ==
    AccLoop(p.accumulators, DictValues(p.year_counts), 1, 0, p.acc_len)

\* Project.generate_csv_data: one row dict per project file
RowOf(p, file) ==
    DictUpdate(
        DictUpdate(
            [keys |-> <<"Project", "Extension", "Total">>,
             val |-> [k \in {"Project", "Extension", "Total"} |->
                         CASE k = "Project" -> <<p.rel_dir, file>>
                           [] k = "Extension" -> file[2]
                           [] OTHER -> p.total_modifications]],
            p.year_counts),
        p.accumulators)

\* rows, and list(rows[0].keys()) if rows else ([], [])
GenerateCsvData(p) ==
    LET rows == [i \in 1..Len(p.projectfiles) |-> RowOf(p, p.projectfiles[i])]
    IN [rows |-> rows,
        headers |-> IF rows # <<>> THEN rows[1].keys ELSE <<<<>>, <<>>>>]

\* ------------------------------------------------------------- the report
\* csv.DictWriter(f, fieldnames=headers).writerow(row): the cells in the
\* order of the field names, "" for a missing key
CsvLine(headers, row) ==
    [i \in 1..Len(headers) |->
        IF headers[i] \in Range(row.keys) THEN row.val[headers[i]] ELSE ""]

CsvLines(headers, rows) == [i \in 1..Len(rows) |-> CsvLine(headers, rows[i])]

\* ProjectModificationAnalyzer._build_headers, as __init__ calls it
BuildHeaders(yrs, acc_max) ==
    <<"Project", "Extension", "Total">> \o yrs \o [i \in 1..acc_max |-> AccName[i]]

NoFile == [exists |-> FALSE, lines |-> <<>>]

\* The header written in append mode, after whatever the file held
WriteCsvHeadersAppending(files, path, headers) ==
    [files EXCEPT ![path] = [exists |-> TRUE, lines |-> @.lines \o <<headers>>]]

\* open(path, "w") and writeheader(): the file is truncated, then holds the
\* header line
WriteCsvHeaders(files, path, headers) ==
    [files EXCEPT ![path] = [exists |-> TRUE, lines |-> <<headers>>]]

\* open(path, "a") and the lines written before the handle is closed
AppendLines(files, path, lines) ==
    [files EXCEPT ![path] = [exists |-> TRUE, lines |-> @.lines \o lines]]

\* What opening and writing the header can do: succeed, fail to open
\* (PermissionError or another OSError), or open and fail while writing.
OpenOutcomes == {"ok", "PermissionError", "OSError", "WriteError"}

\* -------------------------------------------------------------- discovery
\* os.path.splitext(filename)[1].lower()
Lower(ext) ==
    CASE ext = ".CSPROJ" -> ".csproj"
      [] ext = ".SLN" -> ".sln"
      [] OTHER -> ext

SUPPORTED_TYPES ==
    {".bproj", ".cbproj", ".csproj", ".dtproj", ".fsproj", ".groupproj",
     ".iscopeproj", ".jsproj", ".nugetproj", ".pbxproj", ".proj", ".pyproj",
     ".rptproj", ".scopeproj", ".shfbproj", ".sln_bproj", ".smproj", ".sqlproj",
     ".vbproj", ".vcproj", ".vcxproj", ".vdproj", ".vjsproj", ".xproj", ".sln"}

\* The file names of the model in the order Python's sorted() gives them.
FileOrder ==
    <<<<"App", ".csproj">>, <<"Gen", ".SLN">>, <<"Lib", ".CSPROJ">>,
      <<"Lib", ".vbproj">>, <<"README", ".md">>, <<"Unit", ".fsproj">>>>

\* sorted(projectfiles), for the distinct names of one directory
Sorted(names) == SelectSeq(FileOrder, LAMBDA f : f \in Range(names))

\* The extension compared as it is spelled
FindProjectfilesCaseSensitive(filenames, exts) ==
    Sorted(SelectSeq(filenames, LAMBDA f : f[2] \in exts))

\* ProjectModificationAnalyzer._find_projectfiles
FindProjectfiles(filenames, exts) ==
    Sorted(SelectSeq(filenames, LAMBDA f : Lower(f[2]) \in exts))

\* ProjectModificationAnalyzer._find_projects: the loop over os.walk from
\* entry k on
RECURSIVE FindProjects(_, _, _, _)
FindProjects(walk, k, yrs, exts) ==
    IF k > Len(walk) THEN <<>>
    ELSE LET projectfiles == FindProjectfiles(walk[k].filenames, exts)
             rest == FindProjects(walk, k + 1, yrs, exts)
         IN IF projectfiles # <<>>
            THEN <<NewProject(walk[k].dirpath, projectfiles, yrs)>> \o rest
            ELSE rest

\* ---------------------------------------------------------- ignore rules
\* Strings that are matched character by character (patterns, directory
\* paths, regular expressions) are sequences of one-character strings.
StartsWith(s, prefix) ==
    Len(s) >= Len(prefix) /\ SubSeq(s, 1, Len(prefix)) = prefix

\* str.replace(old, new): left to right, non-overlapping
RECURSIVE Replace(_, _, _)
Replace(s, old, new) ==
    IF s = <<>> THEN <<>>
    ELSE IF StartsWith(s, old)
         THEN new \o Replace(SubSeq(s, Len(old) + 1, Len(s)), old, new)
         ELSE <<s[1]>> \o Replace(Tail(s), old, new)

\* The segments of a path: the runs between "/"
RECURSIVE Segments(_, _)
Segments(s, cur) ==
    IF s = <<>> THEN <<cur>>
    ELSE IF s[1] = "/" THEN <<cur>> \o Segments(Tail(s), <<>>)
         ELSE Segments(Tail(s), Append(cur, s[1]))

RECURSIVE Join(_)
Join(segs) ==
    IF segs = <<>> THEN <<>>
    ELSE IF Len(segs) = 1 THEN segs[1]
         ELSE segs[1] \o <<"/">> \o Join(Tail(segs))

\* tools.normalize_rel for relative paths without "..": os.path.normpath
\* drops empty and "." segments (so a trailing "/" too) and gives "." for
\* the empty path; "\" then becomes "/".
normalize_rel(path) ==
    LET segs == SelectSeq(Segments(path, <<>>), LAMBDA g : g # <<>> /\ g # <<".">>)
        norm == IF segs = <<>> THEN <<".">> ELSE Join(segs)
    IN Replace(norm, <<"\\">>, <<"/">>)

\* One pattern of _compile_ignore_patterns: the text of the regular
\* expression handed to re.compile
CompileIgnorePattern(pattern) ==
    LET last == IF pattern = <<>> THEN "" ELSE pattern[Len(pattern)]
        p0 == normalize_rel(pattern)
                 \o (IF last = "/" \/ last = "\\" THEN <<"/">> ELSE <<>>)
        p1 == Replace(p0, <<".">>, <<"\\", ".">>)
        p2 == Replace(p1, <<"*", "*">>, <<".", "*">>)
    IN Replace(p2, <<"*">>, <<"[", "^", "/", "]", "*">>)

\* re.search(regex, text) for the expressions the compilation produces:
\* "\c" is the character c, "." any character, "[^/]" any character but
\* "/", a following "*" repeats the item, anything else is itself.
RECURSIVE RegexMatch(_, _)
RegexMatch(re, text) ==
    IF re = <<>> THEN TRUE
    ELSE LET isEsc == re[1] = "\\" /\ Len(re) >= 2
             isCls == StartsWith(re, <<"[", "^", "/", "]">>)
             n == IF isEsc THEN 2 ELSE IF isCls THEN 4 ELSE 1
             star == Len(re) > n /\ re[n + 1] = "*"
             rest == SubSeq(re, n + (IF star THEN 2 ELSE 1), Len(re))
             ok(c) == IF isEsc THEN c = re[2]
                      ELSE IF isCls THEN c # "/"
                      ELSE IF re[1] = "." THEN TRUE
                      ELSE c = re[1]
         IN IF star
            THEN \/ RegexMatch(rest, text)
                 \/ text # <<>> /\ ok(text[1]) /\ RegexMatch(re, Tail(text))
            ELSE text # <<>> /\ ok(text[1]) /\ RegexMatch(rest, Tail(text))

RegexSearch(re, text) ==
    \E j \in 1..(Len(text) + 1) : RegexMatch(re, SubSeq(text, j, Len(text)))

\* _is_ignored trying the first compiled rule only
IsIgnoredFirstRule(patterns, rel_dir) ==
    IF patterns = <<>> THEN FALSE
    ELSE RegexSearch(CompileIgnorePattern(patterns[1]), rel_dir)

\* ProjectModificationAnalyzer._is_ignored
IsIgnored(patterns, rel_dir) ==
    IF patterns = <<>> THEN FALSE
    ELSE \E k \in 1..Len(patterns) :
            RegexSearch(CompileIgnorePattern(patterns[k]), rel_dir)

\* ProjectModificationAnalyzer._filter_projects: the indices of the kept and
\* of the ignored projects, each in discovery order
FilterProjects(projs, patterns) ==
    LET all == [i \in 1..Len(projs) |-> i]
    IN [filtered |-> SelectSeq(all, LAMBDA i : ~IsIgnored(patterns, projs[i].rel_dir)),
        ignored |-> SelectSeq(all, LAMBDA i : IsIgnored(patterns, projs[i].rel_dir))]

\* -------------------------------------------------------------- characters
LowerLetters ==
    <<"a", "b", "c", "d", "e", "f", "g", "h", "i", "j", "k", "l", "m",
      "n", "o", "p", "q", "r", "s", "t", "u", "v", "w", "x", "y", "z">>

UpperLetters ==
    <<"A", "B", "C", "D", "E", "F", "G", "H", "I", "J", "K", "L", "M",
      "N", "O", "P", "Q", "R", "S", "T", "U", "V", "W", "X", "Y", "Z">>

Digits == <<"0", "1", "2", "3", "4", "5", "6", "7", "8", "9">>

\* ------------------------------------------------- the single-file script
\* ALLOWED_TYPES of project-modification-history-statistics.py
ALLOWED_TYPES == {".bproj", ".csproj", ".vcxproj", ".xproj"}

\* The characters of the model's paths in code-point order
CodePoints == <<"-", ".", "/">> \o Digits \o UpperLetters \o <<"_">> \o LowerLetters

CodePoint(c) == CHOOSE k \in 1..Len(CodePoints) : CodePoints[k] = c

\* s < t for Python strings
RECURSIVE StrLess(_, _)
StrLess(s, t) ==
    IF t = <<>> THEN FALSE
    ELSE IF s = <<>> THEN TRUE
    ELSE IF s[1] = t[1] THEN StrLess(Tail(s), Tail(t))
    ELSE CodePoint(s[1]) < CodePoint(t[1])

\* sorted(list(S)) for a set S of strings
RECURSIVE SortedStrings(_)
SortedStrings(S) ==
    IF S = {} THEN <<>>
    ELSE LET m == CHOOSE x \in S : \A y \in S \ {x} : StrLess(x, y)
         IN <<m>> \o SortedStrings(S \ {m})

\* find_project_directories of the script
find_project_directories(walk, exts) ==
    SortedStrings({walk[k].dirpath : k \in
        {k \in 1..Len(walk) : \E f \in Range(walk[k].filenames) : Lower(f[2]) \in exts}})

\* fnmatch.fnmatchcase(name, pat) for patterns of "*", "?" and literal
\* characters: the whole name has to match, "*" matches any run of
\* characters, "/" included
RECURSIVE fnmatchcase(_, _)
fnmatchcase(name, pat) ==
    IF pat = <<>> THEN name = <<>>
    ELSE IF pat[1] = "*"
         THEN \/ fnmatchcase(name, Tail(pat))
              \/ name # <<>> /\ fnmatchcase(Tail(name), pat)
         ELSE /\ name # <<>>
              /\ pat[1] = "?" \/ pat[1] = name[1]
              /\ fnmatchcase(Tail(name), Tail(pat))

\* _flatten_ignore_args of the script, for arguments without commas
flatten_ignore_args(ignore_args) ==
    [k \in 1..Len(ignore_args) |-> normalize_rel(ignore_args[k])]

\* The glob and equality tests alone, without the directory prefix test
script_is_ignored_exact(rel_dir, patterns) ==
    LET rel == normalize_rel(rel_dir)
    IN \E k \in 1..Len(patterns) :
          \/ fnmatchcase(rel, patterns[k])
          \/ rel = patterns[k]

\* _is_ignored of the script
script_is_ignored(rel_dir, patterns) ==
    LET rel == normalize_rel(rel_dir)
    IN \E k \in 1..Len(patterns) :
          \/ fnmatchcase(rel, patterns[k])
          \/ rel = patterns[k]
          \/ StartsWith(rel, patterns[k] \o <<"/">>)

\* filter_project_dirs of the script
filter_project_dirs(proj_dirs, patterns) ==
    IF patterns = <<>> THEN [filtered |-> proj_dirs, ignored_list |-> <<>>]
    ELSE [filtered |-> SelectSeq(proj_dirs, LAMBDA d : ~script_is_ignored(d, patterns)),
          ignored_list |-> SelectSeq(proj_dirs, LAMBDA d : script_is_ignored(d, patterns))]

\* ----------------------------------------------------- repository metadata
\* str.upper(), character by character
Upper(str) ==
    [i \in 1..Len(str) |->
        IF \E k \in 1..26 : str[i] = LowerLetters[k]
        THEN UpperLetters[CHOOSE k \in 1..26 : str[i] = LowerLetters[k]]
        ELSE str[i]]

\* The class [A-Za-z0-9._-] of _sanitize_branch_name
SafeChars ==
    {LowerLetters[k] : k \in 1..26} \cup {UpperLetters[k] : k \in 1..26}
        \cup {Digits[k] : k \in 1..10} \cup {".", "_", "-"}

Unknown == <<"u", "n", "k", "n", "o", "w", "n">>

Detached == <<"d", "e", "t", "a", "c", "h", "e", "d">>

\* ProjectModificationAnalyzer._sanitize_branch_name
SanitizeBranchName(name) ==
    LET safe == Replace(name, <<"/">>, <<"-">>)
        subbed == [i \in 1..Len(safe) |-> IF safe[i] \in SafeChars THEN safe[i] ELSE "-"]
    IN IF subbed = <<>> THEN Unknown ELSE subbed

\* Decode errors escape the handler
CaughtWithoutDecodeError == {"OSError", "CalledProcessError"}

\* _get_repo_branch_and_head:
\* "except (OSError, subprocess.SubprocessError, UnicodeDecodeError)"
CaughtByRepoQuery == {"OSError", "CalledProcessError", "UnicodeDecodeError"}

\* The outcome of the first of the issued queries that raises, "ok" if none
\* does: rev-parse --abbrev-ref runs only when branch --show-current
\* printed nothing, rev-parse --short only after the queries before it.
FirstFailure(rp) ==
    IF rp.branch.outcome # "ok" THEN rp.branch.outcome
    ELSE IF rp.branch.stdout = <<>> /\ rp.ref.outcome # "ok" THEN rp.ref.outcome
    ELSE rp.sha.outcome

\* ProjectModificationAnalyzer._get_repo_branch_and_head; raised is the
\* exception that leaves it, "ok" when it returns
GetRepoBranchAndHead(rp) ==
    LET failed == FirstFailure(rp)
        b0 == IF rp.branch.stdout = <<>> THEN rp.ref.stdout ELSE rp.branch.stdout
        branch == IF Upper(b0) = <<"H", "E", "A", "D">> \/ b0 = <<>>
                  THEN Detached ELSE b0
    IN IF failed = "ok"
       THEN [raised |-> "ok", branch |-> SanitizeBranchName(branch), sha |-> rp.sha.stdout]
       ELSE IF failed \in CaughtByRepoQuery
            THEN [raised |-> "ok", branch |-> Unknown, sha |-> Unknown]
            ELSE [raised |-> failed, branch |-> <<>>, sha |-> <<>>]

\* sorted(Project.SUPPORTED_TYPES), each with its e.lstrip(".")
TypeTokens ==
    <<<<".bproj", "bproj">>, <<".cbproj", "cbproj">>, <<".csproj", "csproj">>,
      <<".dtproj", "dtproj">>, <<".fsproj", "fsproj">>,
      <<".groupproj", "groupproj">>, <<".iscopeproj", "iscopeproj">>,
      <<".jsproj", "jsproj">>, <<".nugetproj", "nugetproj">>,
      <<".pbxproj", "pbxproj">>, <<".proj", "proj">>, <<".pyproj", "pyproj">>,
      <<".rptproj", "rptproj">>, <<".scopeproj", "scopeproj">>,
      <<".shfbproj", "shfbproj">>, <<".sln", "sln">>,
      <<".sln_bproj", "sln_bproj">>, <<".smproj", "smproj">>,
      <<".sqlproj", "sqlproj">>, <<".vbproj", "vbproj">>,
      <<".vcproj", "vcproj">>, <<".vcxproj", "vcxproj">>,
      <<".vdproj", "vdproj">>, <<".vjsproj", "vjsproj">>, <<".xproj", "xproj">>>>

\* "_".join(tokens)
RECURSIVE JoinTokens(_)
JoinTokens(tokens) ==
    IF tokens = <<>> THEN <<>>
    ELSE IF Len(tokens) = 1 THEN <<tokens[1][2]>>
         ELSE <<tokens[1][2], "_">> \o JoinTokens(Tail(tokens))

\* ProjectModificationAnalyzer._build_filename_suffix
BuildFilenameSuffix(selected) ==
    LET sel_norm == SelectSeq(TypeTokens, LAMBDA t : t[1] \in selected)
    IN IF sel_norm # <<>> /\ sel_norm # TypeTokens
       THEN <<"_">> \o JoinTokens(sel_norm)
       ELSE <<>>

\* A file name is the sequence of the pieces it is put together from.
\* _determine_output_path: f"{repo_safe}_{branch}_{sha}{suffix}.csv" for a
\* root directory named repo
DetermineOutputPath(meta, selected) ==
    <<"repo", "_">> \o meta.branch \o <<"_">> \o meta.sha
        \o BuildFilenameSuffix(selected) \o <<".csv">>

\* ProjectModificationAnalyzer._add_timestamp: os.path.splitext and the
\* time of the call, the same piece TS at every call of the model
AddTimestamp(filename) ==
    SubSeq(filename, 1, Len(filename) - 1) \o <<"_", "TS">> \o <<filename[Len(filename)]>>

\* The empty string _prepare_csv returns on failure
NoPath == <<>>

\* ------------------------------------------------- main: the project types
\* The attributes class Project defines
ProjectAttrs ==
    [SUPPORTED_TYPES |-> SUPPORTED_TYPES, ACC_MAX_YEARS |-> ACC_MAX_YEARS]

\* Reading Project.<name> raises AttributeError
MissingAttr(name) == name \notin DOMAIN ProjectAttrs

\* main._normalize_types for one value: t.lower(), and a "." put in front
\* of a value that does not start with one (csproj, foo, ...)
NormalizeType(t) ==
    LET t_low == Lower(t)
    IN IF \E k \in 1..Len(TypeTokens) : TypeTokens[k][2] = t_low
       THEN TypeTokens[CHOOSE k \in 1..Len(TypeTokens) : TypeTokens[k][2] = t_low][1]
       ELSE IF t_low = "foo" THEN ".foo" ELSE t_low

\* sorted(S) for a set S of project types
SortedTypes(S) ==
    LET picked == SelectSeq(TypeTokens, LAMBDA t : t[1] \in S)
    IN [k \in 1..Len(picked) |-> picked[k][1]]

\* main.select_project_types with main._validate_types, for values that
\* _flatten_types leaves as they are (no comma, no blank); raised is the
\* exception that leaves the call, "ok" when it returns value
select_project_types(raw_values) ==
    IF raw_values # <<>>
    THEN LET norm == {NormalizeType(raw_values[k]) : k \in 1..Len(raw_values)}
         IN IF MissingAttr("ALLOWED_TYPES")
            THEN [raised |-> "AttributeError", value |-> <<>>]
            ELSE LET invalid == norm \ ProjectAttrs.ALLOWED_TYPES
                 IN IF invalid # {}
                    THEN [raised |-> "SystemExit", value |-> <<>>]
                    ELSE [raised |-> "ok", value |-> SortedTypes(norm \ invalid)]
    ELSE IF MissingAttr("ALLOWED_TYPES")
         THEN [raised |-> "AttributeError", value |-> <<>>]
         ELSE [raised |-> "ok", value |-> SortedTypes(ProjectAttrs.ALLOWED_TYPES)]

\* The files a run with the selection sel can touch
PathsFor(sel) ==
    LET path == DetermineOutputPath(GetRepoBranchAndHead(repo), sel)
    IN {path, AddTimestamp(path)}

\* The path _determine_output_path gives this run
PrimaryPath == DetermineOutputPath(GetRepoBranchAndHead(repo), selected_exts)

\* The files of the output directory a run can touch
Paths == {PrimaryPath, AddTimestamp(PrimaryPath)}

\* ------------------------------------------------------------- the inputs
\* The walked tree: a directory without project files, then project
\* directories; os.walk yields them in this order.
DocsDir == [dirpath |-> <<"d">>, filenames |-> <<<<"README", ".md">>>>]

ProjectDirs ==
    <<[dirpath |-> <<"a">>,
       filenames |-> <<<<"README", ".md">>, <<"App", ".csproj">>>>],
      [dirpath |-> <<"b">>,
       filenames |-> <<<<"Lib", ".vbproj">>, <<"Lib", ".CSPROJ">>>>],
      [dirpath |-> <<"c", "/", "g">>, filenames |-> <<<<"Gen", ".SLN">>>>],
      [dirpath |-> <<"t", "/", "u">>, filenames |-> <<<<"Unit", ".fsproj">>>>]>>

TreeOf(n) == <<DocsDir>> \o SubSeq(ProjectDirs, 1, n)

DirsOf(n) == {ProjectDirs[i].dirpath : i \in 1..n}

\* What git can answer for one directory
Responses(histories) ==
    {[outcome |-> "ok", stdout |-> h] : h \in histories}
        \cup {[outcome |-> o, stdout |-> <<>>] : o \in Outcomes \ {"ok"}}

StaleFile == [exists |-> TRUE, lines |-> <<<<"stale">>>>]

\* git at the root of a repository on branch main
RepoOnMain ==
    [branch |-> [outcome |-> "ok", stdout |-> <<"m", "a", "i", "n">>],
     ref |-> [outcome |-> "ok", stdout |-> <<"m", "a", "i", "n">>],
     sha |-> [outcome |-> "ok", stdout |-> <<"a", "b", "c", "1", "2", "3">>]]

\* The single-file script before it has run
ScriptStart == [pc |-> "start", proj_dirs |-> <<>>, ignored_list |-> <<>>]

\* __init__ for a window of y years, and the state before analyze() in an
\* output directory where the report of an earlier run may be left
InitAt(y, position, paths) ==
    /\ years = get_year_window(y)
    /\ csv_headers = BuildHeaders(get_year_window(y), ACC_MAX_YEARS)
    /\ write_while_analyze \in BOOLEAN
    /\ script = ScriptStart
    /\ fs \in [paths -> {NoFile, StaleFile}]
    /\ \A path \in paths : path[Len(path) - 1] = "TS" => fs[path] = NoFile
    /\ prior = [runs |-> <<>>, fs0 |-> fs]
    /\ projects = <<>>
    /\ filtered = <<>>
    /\ ignored = <<>>
    /\ pc = position
    /\ idx = 0
    /\ modification_dates = <<>>
    /\ data = <<>>
    /\ out_path = NoPath
    /\ result = "None"
    /\ opens = <<>>
    /\ appends = <<>>
    /\ queries = <<>>

\* An analyzer constructed by its caller, without main()
NotCli == [used |-> FALSE, project_type |-> <<>>]

InitRun(y) ==
    /\ cli = NotCli
    /\ InitAt(y, "start", Paths)

InitWith(nset, histories, patterns) ==
    /\ ignore_patterns \in patterns
    /\ selected_exts = SUPPORTED_TYPES
    /\ repo = RepoOnMain
    /\ \E n \in nset :
          /\ tree = TreeOf(n)
          /\ gitlog \in [DirsOf(n) -> Responses(histories)]
    /\ \E y \in 1..MaxYears : InitRun(y)

\* A run over up to MaxProjects directories, each with no commit or with
\* one commit of the current year and one of six years earlier; no ignore
\* pattern, one that names directory b, or two that name a and b
Init ==
    InitWith(0..MaxProjects,
             {<<>>, <<Date("2025", "06", "01"), Date("2019", "01", "15")>>},
             {<<>>, <<<<"b">>>>, <<<<"a">>, <<"b">>>>})

\* The same inputs, given first to the buffered strategy
InitBuffered == Init /\ ~write_while_analyze

\* One project with every history of up to MaxCommits lines
InitProject == InitWith({1}, SeqsUpTo(LogLines, MaxCommits), {<<>>})

\* MaxProjects directories whose histories are empty or hold one commit of
\* the current year, no ignore pattern, a window of MaxYears years
InitTwice ==
    /\ ignore_patterns = <<>>
    /\ selected_exts = SUPPORTED_TYPES
    /\ repo = RepoOnMain
    /\ tree = TreeOf(MaxProjects)
    /\ gitlog \in [DirsOf(MaxProjects) ->
                      Responses({<<>>, <<Date("2025", "06", "01")>>})]
    /\ InitRun(MaxYears)

\* The marker sets a run can be given: all types, one type, two types
SelectedSets == {SUPPORTED_TYPES, {".csproj"}, {".sln", ".vbproj"}}

\* A run without ignore patterns over up to MaxProjects directories with
\* empty histories, for each marker set
InitDiscover ==
    /\ ignore_patterns = <<>>
    /\ selected_exts \in SelectedSets
    /\ repo = RepoOnMain
    /\ \E n \in 0..MaxProjects :
          /\ tree = TreeOf(n)
          /\ gitlog \in [DirsOf(n) -> Responses({<<>>})]
    /\ \E y \in 1..MaxYears : InitRun(y)

\* A query of git at the root that raises
Failures == {[outcome |-> o, stdout |-> <<>>] : o \in Outcomes \ {"ok"}}

\* What git can answer at the root: branch --show-current prints the branch
\* (main, dev/x) or nothing on a detached HEAD, rev-parse --abbrev-ref HEAD
\* then prints HEAD, rev-parse --short=6 HEAD prints the commit id; each of
\* the three can fail instead
RepoAnswers ==
    [branch : {[outcome |-> "ok", stdout |-> b] :
                   b \in {<<"m", "a", "i", "n">>, <<"d", "e", "v", "/", "x">>, <<>>}}
                 \cup Failures,
     ref : {[outcome |-> "ok", stdout |-> <<"H", "E", "A", "D">>]} \cup Failures,
     sha : {[outcome |-> "ok", stdout |-> <<"a", "b", "c", "1", "2", "3">>]}
              \cup Failures]

\* One project with an empty history, all types or .csproj alone selected,
\* and every answer of git at the root
InitMeta ==
    /\ ignore_patterns = <<>>
    /\ selected_exts \in {SUPPORTED_TYPES, {".csproj"}}
    /\ repo \in RepoAnswers
    /\ tree = TreeOf(1)
    /\ gitlog = [d \in DirsOf(1) |-> [outcome |-> "ok", stdout |-> <<>>]]
    /\ InitRun(MaxYears)

\* The --project-type values main() can be given: none, one without its
\* dot, two of which one is in upper case, one that is no project type
RawTypeLists == {<<>>, <<"csproj">>, <<".SLN", "csproj">>, <<"foo">>}

\* The selections those values ask for
CliSelections == {SUPPORTED_TYPES, {".csproj"}, {".csproj", ".sln"}}

\* One project with an empty history, analyzed by an analyzer its caller
\* constructed with all types, or by main() before it selects the types
InitMain ==
    /\ ignore_patterns = <<>>
    /\ repo = RepoOnMain
    /\ tree = TreeOf(1)
    /\ gitlog \in [DirsOf(1) -> Responses({<<>>})]
    /\ \/ /\ cli = NotCli
          /\ selected_exts = SUPPORTED_TYPES
          /\ \E y \in 1..MaxYears : InitAt(y, "start", Paths)
       \/ /\ cli \in {[used |-> TRUE, project_type |-> r] : r \in RawTypeLists}
          /\ selected_exts = {}
          /\ \E y \in 1..MaxYears :
                InitAt(y, "main", UNION {PathsFor(sel) : sel \in CliSelections})

\* Segments of the paths the ignore rules are tried on
src == <<"s", "r", "c">>

Legacy == <<"L", "e", "g", "a", "c", "y">>

LegacyOther == Legacy \o <<"O", "t", "h", "e", "r">>

MyLegacy == <<"M", "y">> \o Legacy

Foo == <<"F", "o", "o">>

\* Project directories under a/../b and under src, and one elsewhere
MatchDirs ==
    {Join(<<<<"a">>, <<"x">>, <<"b">>>>),
     Join(<<<<"a">>, <<"x", "x">>, <<"b">>>>),
     Join(<<<<"a">>, <<"x">>, <<"y">>, <<"b">>>>),
     Join(<<<<"a">>, <<"x", "a">>, <<"y">>, <<"b">>>>),
     Join(<<src, Legacy>>),
     Join(<<src, Legacy, Foo>>),
     Join(<<src, LegacyOther>>),
     Join(<<src, MyLegacy>>),
     <<"k">>}

\* The ignore patterns tried on them
MatchPatterns ==
    {<<"a", "/", "*", "*", "/", "b">>,
     <<"a", "/", "*", "/", "b">>,
     Join(<<src, Legacy>>),
     Legacy}

\* The walks of up to MaxMatchDirs distinct directories of MatchDirs, each
\* holding one project file (directories without files add no project)
MatchTrees ==
    {[k \in 1..Len(w) |-> [dirpath |-> w[k], filenames |-> <<<<"App", ".csproj">>>>]] :
        w \in {v \in SeqsUpTo(MatchDirs, MaxMatchDirs) :
                  v # <<>> /\ \A i, j \in 1..Len(v) : i # j => v[i] # v[j]}}

\* One ignore pattern and a tree of directories it may or may not name;
\* every history is empty
InitIgnore ==
    /\ ignore_patterns \in {<<pat>> : pat \in MatchPatterns}
    /\ selected_exts = SUPPORTED_TYPES
    /\ repo = RepoOnMain
    /\ tree \in MatchTrees
    /\ gitlog = [d \in {tree[k].dirpath : k \in 1..Len(tree)} |->
                    [outcome |-> "ok", stdout |-> <<>>]]
    /\ InitRun(MaxYears)

\* ------------------------------------------------------------ the actions
\* The positions at which an exception has left analyze() uncaught
Raised == {"raised_in_query", "raised_in_makedirs", "raised_in_repo_query"}

\* The loop variable stuck at the first kept project
CurFirst == filtered[1]

\* The project of the current iteration of the loop over self.filtered
Cur == filtered[idx]

\* Where a strategy goes once the output file is prepared
AfterPrepare == IF write_while_analyze THEN "query" ELSE "write"

\* Where the loop over filtered goes after project idx
NextProject ==
    IF idx < Len(filtered)
    THEN /\ idx' = idx + 1
         /\ pc' = "query"
    ELSE /\ idx' = idx
         /\ pc' = IF write_while_analyze THEN "return_true" ELSE "aggregated"

\* analyze() without its early return
NoneKeptUnchecked(kept) == FALSE

\* analyze(): "if not self.filtered", the early return
NoneKept(kept) == kept = <<>>

\* analyze(): _find_projects, _filter_projects and the choice of strategy
FindAndFilter ==
    /\ pc = "start"
    /\ LET found == FindProjects(tree, 1, years, selected_exts)
           part == FilterProjects(found, ignore_patterns)
       IN /\ projects' = found
          /\ filtered' = part.filtered
          /\ ignored' = part.ignored
          /\ IF NoneKept(part.filtered)
             THEN pc' = "done" /\ idx' = idx
             ELSE IF write_while_analyze
                  THEN pc' = "prepare" /\ idx' = idx
                  ELSE pc' = "query" /\ idx' = 1
    /\ UNCHANGED <<cli, selected_exts, repo, script, prior, years, csv_headers,
                   ignore_patterns, write_while_analyze,
                   tree, gitlog, fs, modification_dates, data, out_path,
                   result, opens, appends, queries>>

\* Project._get_git_modification_dates, called by analyze_directory
GetGitModificationDates ==
    /\ pc = "query"
    /\ LET resp == gitlog[projects[Cur].rel_dir]
       IN /\ queries' = Append(queries, Cur)
          /\ IF resp.outcome = "ok"
             THEN LET dates == NonEmptyLines(resp.stdout)
                  IN /\ projects' = [projects EXCEPT
                                        ![Cur].total_modifications = Len(dates)]
                     /\ modification_dates' = dates
                     /\ pc' = "tally"
             ELSE IF resp.outcome \in CaughtByGitDates
                  THEN /\ modification_dates' = <<>>
                       /\ pc' = "tally"
                       /\ UNCHANGED projects
                  ELSE /\ pc' = "raised_in_query"
                       /\ UNCHANGED <<projects, modification_dates>>
    /\ UNCHANGED <<cli, selected_exts, repo, script, prior, years, csv_headers,
                   ignore_patterns, write_while_analyze,
                   tree, gitlog, fs, filtered, ignored, idx, data, out_path,
                   result, opens, appends>>

\* Project._tally_year_counts, called by analyze_directory
Tally ==
    /\ pc = "tally"
    /\ projects' = [projects EXCEPT ![Cur].year_counts =
                       TallyYearCounts(@, modification_dates)]
    /\ pc' = "accumulate"
    /\ UNCHANGED <<cli, selected_exts, repo, script, prior, years, csv_headers,
                   ignore_patterns, write_while_analyze,
                   tree, gitlog, fs, filtered, ignored, idx, modification_dates,
                   data, out_path, result, opens, appends, queries>>

\* Project._compute_accumulators; analyze_directory returns
Accumulate ==
    /\ pc = "accumulate"
    /\ projects' = [projects EXCEPT ![Cur].accumulators =
                       ComputeAccumulators(projects[Cur])]
    /\ modification_dates' = <<>>
    /\ pc' = "emit"
    /\ UNCHANGED <<cli, selected_exts, repo, script, prior, years, csv_headers,
                   ignore_patterns, write_while_analyze,
                   tree, gitlog, fs, filtered, ignored, idx, data, out_path,
                   result, opens, appends, queries>>

\* The header check left out
HeadersNeverMismatch(headers, expected) == FALSE

\* "if headers != csv_headers", in _aggregate_modifications and write_csv
HeadersMismatch(headers, expected) == headers # expected

\* _aggregate_modifications: the rest of the loop body for one project
Collect ==
    /\ pc = "emit"
    /\ ~write_while_analyze
    /\ LET gen == GenerateCsvData(projects[Cur])
       IN data' = IF HeadersMismatch(gen.headers, csv_headers) THEN data
                  ELSE data \o gen.rows
    /\ NextProject
    /\ UNCHANGED <<cli, selected_exts, repo, script, prior, years, csv_headers,
                   ignore_patterns, write_while_analyze,
                   tree, gitlog, fs, projects, filtered, ignored,
                   modification_dates, out_path, result, opens, appends, queries>>

\* _analyze_then_write: "if not data: return False"
AfterAggregate ==
    /\ pc = "aggregated"
    /\ IF data = <<>>
       THEN result' = "False" /\ pc' = "done"
       ELSE result' = result /\ pc' = "prepare"
    /\ UNCHANGED <<cli, selected_exts, repo, script, prior, years, csv_headers,
                   ignore_patterns, write_while_analyze,
                   tree, gitlog, fs, projects, filtered, ignored, idx,
                   modification_dates, data, out_path, opens, appends, queries>>

\* What one attempt to write the header leaves in the directory
HeaderAttempt(path, outcome) ==
    CASE outcome = "ok" -> WriteCsvHeaders(fs, path, csv_headers)
      [] outcome = "WriteError" -> [fs EXCEPT ![path] = [exists |-> TRUE, lines |-> <<>>]]
      [] OTHER -> fs

\* A retry on every OSError
RetriedAnyOutcome(outcome) == TRUE

\* _prepare_csv: "except PermissionError" is the handler that retries
RetriedOutcome(outcome) == outcome = "PermissionError"

\* _prepare_csv: _determine_output_path and the first _write_csv_headers
PreparePrimary ==
    /\ pc = "prepare"
    /\ LET meta == GetRepoBranchAndHead(repo)
           path == DetermineOutputPath(meta, selected_exts)
       IN IF meta.raised # "ok"
          THEN \* nothing catches what leaves _get_repo_branch_and_head
               /\ pc' = "raised_in_repo_query"
               /\ UNCHANGED <<fs, out_path, result, opens>>
          ELSE \/ \* os.makedirs raises: nothing catches it
                  /\ pc' = "raised_in_makedirs"
                  /\ UNCHANGED <<fs, out_path, result, opens>>
               \/ \E outcome \in OpenOutcomes :
                     /\ opens' = Append(opens, [path |-> path, outcome |-> outcome])
                     /\ fs' = HeaderAttempt(path, outcome)
                     /\ CASE outcome = "ok" ->
                               out_path' = path /\ pc' = AfterPrepare /\ result' = result
                          [] outcome # "ok" /\ RetriedOutcome(outcome) ->
                               out_path' = path /\ pc' = "retry" /\ result' = result
                          [] OTHER ->
                               out_path' = NoPath /\ pc' = "done" /\ result' = "False"
    /\ idx' = IF pc' = "query" THEN 1 ELSE idx
    /\ UNCHANGED <<cli, selected_exts, repo, script, prior, years, csv_headers,
                   ignore_patterns, write_while_analyze,
                   tree, gitlog, projects, filtered, ignored,
                   modification_dates, data, appends, queries>>

\* _prepare_csv: the handler of PermissionError
PrepareRetry ==
    /\ pc = "retry"
    /\ \E outcome \in OpenOutcomes :
          LET path == AddTimestamp(out_path)
          IN /\ opens' = Append(opens, [path |-> path, outcome |-> outcome])
             /\ fs' = HeaderAttempt(path, outcome)
             /\ IF outcome = "ok"
                THEN out_path' = path /\ pc' = AfterPrepare /\ result' = result
                ELSE out_path' = NoPath /\ pc' = "done" /\ result' = "False"
    /\ idx' = IF pc' = "query" THEN 1 ELSE idx
    /\ UNCHANGED <<cli, selected_exts, repo, script, prior, years, csv_headers,
                   ignore_patterns, write_while_analyze,
                   tree, gitlog, projects, filtered, ignored,
                   modification_dates, data, appends, queries>>

\* An append of lines that ends in an error has written some of them.
Written(lines, ok) ==
    IF ok THEN {lines} ELSE {SubSeq(lines, 1, k) : k \in 0..(Len(lines) - 1)}

\* _analyze_then_write: the append of all buffered rows
WriteAll ==
    /\ pc = "write"
    /\ \E ok \in BOOLEAN :
       \E w \in Written(CsvLines(csv_headers, data), ok) :
          /\ fs' = AppendLines(fs, out_path, w)
          /\ appends' = Append(appends, [rows |-> data, path |-> out_path,
                                         written |-> Len(w),
                                         queried |-> Len(queries)])
          /\ result' = IF ok THEN "True" ELSE "False"
    /\ pc' = "done"
    /\ UNCHANGED <<cli, selected_exts, repo, script, prior, years, csv_headers,
                   ignore_patterns, write_while_analyze,
                   tree, gitlog, projects, filtered, ignored, idx,
                   modification_dates, data, out_path, opens, queries>>

\* _write_while_analyzing: Project.write_csv for one project
WriteCsv ==
    /\ pc = "emit"
    /\ write_while_analyze
    /\ LET gen == GenerateCsvData(projects[Cur])
       IN IF gen.rows = <<>> \/ HeadersMismatch(gen.headers, csv_headers)
          THEN UNCHANGED <<fs, appends>>
          ELSE \E ok \in BOOLEAN :
               \E w \in Written(CsvLines(gen.headers, gen.rows), ok) :
                  /\ fs' = AppendLines(fs, out_path, w)
                  /\ appends' = Append(appends, [rows |-> gen.rows, path |-> out_path,
                                                 written |-> Len(w),
                                                 queried |-> Len(queries)])
    /\ NextProject
    /\ UNCHANGED <<cli, selected_exts, repo, script, prior, years, csv_headers,
                   ignore_patterns, write_while_analyze,
                   tree, gitlog, projects, filtered, ignored,
                   modification_dates, data, out_path, result, opens, queries>>

\* _write_while_analyzing: the statistics and "return True"
ReturnTrue ==
    /\ pc = "return_true"
    /\ result' = "True"
    /\ pc' = "done"
    /\ UNCHANGED <<cli, selected_exts, repo, script, prior, years, csv_headers,
                   ignore_patterns, write_while_analyze,
                   tree, gitlog, fs, projects, filtered, ignored, idx,
                   modification_dates, data, out_path, opens, appends, queries>>

\* A second analyzer, built on the same arguments and run with
\* write_while_analyze=True in the directory the first run started from
Rerun ==
    /\ pc \in {"done"} \cup Raised
    /\ ~write_while_analyze
    /\ prior.runs = <<>>
    /\ prior' = [prior EXCEPT !.runs =
                    <<[fs |-> fs, pc |-> pc, result |-> result,
                       opens |-> opens, appends |-> appends]>>]
    /\ write_while_analyze' = TRUE
    /\ fs' = prior.fs0
    /\ projects' = <<>>
    /\ filtered' = <<>>
    /\ ignored' = <<>>
    /\ pc' = "start"
    /\ idx' = 0
    /\ modification_dates' = <<>>
    /\ data' = <<>>
    /\ out_path' = NoPath
    /\ result' = "None"
    /\ opens' = <<>>
    /\ appends' = <<>>
    /\ queries' = <<>>
    /\ UNCHANGED <<cli, selected_exts, repo, script, years, csv_headers,
                   ignore_patterns, tree, gitlog>>

\* The orders in which os.walk can yield the directories of walk: the order
\* of os.scandir, which the file system chooses
WalkOrders(walk) ==
    {w \in [1..Len(walk) -> Range(walk)] : Range(w) = Range(walk)}

\* A second analyzer, built on the same arguments and run with the same
\* strategy on the same tree, in the directory the first run started from
RunAgain ==
    /\ pc \in {"done"} \cup Raised
    /\ prior.runs = <<>>
    /\ prior' = [prior EXCEPT !.runs =
                    <<[fs |-> fs, pc |-> pc, result |-> result,
                       opens |-> opens, appends |-> appends]>>]
    /\ tree' \in WalkOrders(tree)
    /\ fs' = prior.fs0
    /\ projects' = <<>>
    /\ filtered' = <<>>
    /\ ignored' = <<>>
    /\ pc' = "start"
    /\ idx' = 0
    /\ modification_dates' = <<>>
    /\ data' = <<>>
    /\ out_path' = NoPath
    /\ result' = "None"
    /\ opens' = <<>>
    /\ appends' = <<>>
    /\ queries' = <<>>
    /\ UNCHANGED <<cli, selected_exts, repo, script, years, csv_headers,
                   ignore_patterns, write_while_analyze, gitlog>>

\* main() of the single-file script up to its message about the kept
\* directories: find_project_directories and filter_project_dirs
ScriptMain ==
    /\ script.pc = "start"
    /\ LET found == find_project_directories(tree, ALLOWED_TYPES)
           part == filter_project_dirs(found, flatten_ignore_args(ignore_patterns))
       IN script' = [pc |-> IF part.filtered = <<>> THEN "done" ELSE "aggregate",
                     proj_dirs |-> part.filtered,
                     ignored_list |-> part.ignored_list]
    /\ UNCHANGED <<years, csv_headers, ignore_patterns, write_while_analyze, tree,
                   gitlog, fs, projects, filtered, ignored, pc, idx,
                   modification_dates, data, out_path, result, opens, appends,
                   queries, prior, selected_exts, repo, cli>>

\* A caller that calls analyze_directory() a second time on the Project it
\* has just analyzed; what the first call left is kept for comparison
AnalyzeAgain ==
    /\ pc = "emit"
    /\ prior.runs = <<>>
    /\ prior' = [prior EXCEPT !.runs = <<[project |-> projects[Cur]]>>]
    /\ pc' = "query"
    /\ UNCHANGED <<years, csv_headers, ignore_patterns, write_while_analyze, tree,
                   gitlog, fs, projects, filtered, ignored, idx,
                   modification_dates, data, out_path, result, opens, appends,
                   queries, selected_exts, repo, script, cli>>

\* The positions at which main() has ended before it constructed the
\* analyzer: by an exception nothing catches, or by SystemExit
MainEnded == {"raised_in_select_types", "system_exit"}

\* main() up to the construction of the analyzer: select_project_types
Main ==
    /\ pc = "main"
    /\ LET sel == select_project_types(cli.project_type)
       IN CASE sel.raised = "ok" ->
                 selected_exts' = Range(sel.value) /\ pc' = "start"
            [] sel.raised = "SystemExit" ->
                 selected_exts' = selected_exts /\ pc' = "system_exit"
            [] OTHER ->
                 selected_exts' = selected_exts /\ pc' = "raised_in_select_types"
    /\ UNCHANGED <<years, csv_headers, ignore_patterns, write_while_analyze, tree,
                   gitlog, fs, projects, filtered, ignored, idx,
                   modification_dates, data, out_path, result, opens, appends,
                   queries, prior, repo, script, cli>>

\* What analyze() hands to its caller when the run has ended: it calls the
\* strategy as a statement and drops the value in result, so it returns None
\* on every path unless an exception nothing caught leaves it
AnalyzeOutcome == IF pc \in Raised THEN "raised" ELSE "None"

\* main(): analyzer.analyze(args.output_dir) is a statement too, followed by
\* the "Done in" message; the process ends with status 0 unless an
\* exception left analyze()
ExitStatus == IF pc \in Raised \cup MainEnded THEN 1 ELSE 0

Next ==
    \/ FindAndFilter
    \/ GetGitModificationDates
    \/ Tally
    \/ Accumulate
    \/ Collect
    \/ AfterAggregate
    \/ PreparePrimary
    \/ PrepareRetry
    \/ WriteAll
    \/ WriteCsv
    \/ ReturnTrue

Spec == Init /\ [][Next]_vars

SpecProject == InitProject /\ [][Next]_vars

NextBoth == Next \/ Rerun

SpecBoth == InitBuffered /\ [][NextBoth]_vars

\* Two runs of the analyzer over one tree
NextTwice == Next \/ RunAgain

SpecTwice == InitTwice /\ [][NextTwice]_vars

\* One project whose analyze_directory() may be called twice
NextAgain == Next \/ AnalyzeAgain

SpecAgain == InitProject /\ [][NextAgain]_vars

\* Runs started through main() beside runs of an analyzer constructed by
\* its caller
NextMain == Main \/ Next

SpecMain == InitMain /\ [][NextMain]_vars

SpecMeta == InitMeta /\ [][Next]_vars

SpecDiscover == InitDiscover /\ [][Next]_vars

\* The analyzer and the single-file script on the same tree and patterns
NextIgnore == Next \/ ScriptMain

SpecIgnore == InitIgnore /\ [][NextIgnore]_vars

\* ============================================================== claims
\* analyze_directory has returned for project i of this run
Analyzed(i) ==
    \E k \in 1..Len(filtered) :
        /\ filtered[k] = i
        /\ \/ k < idx
           \/ k = idx /\ pc \notin {"query", "tally", "accumulate", "raised_in_query"}

Outcome(i) == gitlog[projects[i].rel_dir].outcome

\* The lines of git's answer for project i that are dates; none when the
\* query failed
Stdout(i) == IF Outcome(i) = "ok" THEN gitlog[projects[i].rel_dir].stdout ELSE <<>>

DatesWhere(i, P(_)) ==
    Cardinality({k \in 1..Len(Stdout(i)) : Stdout(i)[k] # <<>> /\ P(Stdout(i)[k])})

WindowSum(p) == SumSeq(DictValues(p.year_counts))

\* C1: once analyze_directory has run on a fresh Project, total_modifications
\* is the number of dates git returned (in the window or not), every window
\* year's bucket is the number of dates of that year, and year_counts has
\* exactly the window's years as keys, in window order.
C1_TallyContract ==
    \A i \in 1..Len(projects) :
        Analyzed(i) =>
            LET p == projects[i]
            IN /\ p.total_modifications = DatesWhere(i, LAMBDA d : TRUE)
               /\ p.year_counts.keys = years
               /\ DOMAIN p.year_counts.val = Range(years)
               /\ \A y \in Range(years) :
                     p.year_counts.val[y] = DatesWhere(i, LAMBDA d : d[1] = y)

\* A project analyzed with dates inside and outside the window
C1_Witness ==
    \E i \in 1..Len(projects) :
        /\ Analyzed(i)
        /\ WindowSum(projects[i]) > 0
        /\ projects[i].total_modifications > WindowSum(projects[i])

\* C2: after aggregation there are exactly min(5, Y) accumulators
\* Acc_1..Acc_k, Acc_i is the sum of the first i buckets in window order,
\* and Acc_i <= Acc_{i+1}.
C2_AccumulatorContract ==
    \A i \in 1..Len(projects) :
        Analyzed(i) =>
            LET p == projects[i]
                k == Min(5, Len(years))
                vals == DictValues(p.year_counts)
            IN /\ p.accumulators.keys = [j \in 1..k |-> AccName[j]]
               /\ DOMAIN p.accumulators.val = {AccName[j] : j \in 1..k}
               /\ \A j \in 1..k :
                     p.accumulators.val[AccName[j]] = SumSeq(SubSeq(vals, 1, j))
               /\ \A j \in 1..(k - 1) :
                     p.accumulators.val[AccName[j]] <= p.accumulators.val[AccName[j + 1]]

\* A window of six years: five accumulators, the later ones strictly larger
C2_Witness ==
    \E i \in 1..Len(projects) :
        /\ Analyzed(i)
        /\ Len(years) = 6
        /\ Len(projects[i].accumulators.keys) = 5
        /\ 0 < projects[i].accumulators.val["Acc_1"]
        /\ projects[i].accumulators.val["Acc_1"] < projects[i].accumulators.val["Acc_3"]

\* C3: in every state of a run, every Project has
\* total_modifications >= sum of its year_counts.
C3_TotalBoundsWindow ==
    \A i \in 1..Len(projects) :
        projects[i].total_modifications >= WindowSum(projects[i])

\* Between the history query and the tally: the total is set, no bucket yet
C3_Witness ==
    /\ pc = "tally"
    /\ projects[Cur].total_modifications = 2
    /\ WindowSum(projects[Cur]) = 0

\* The header the specification describes for a window
CanonicalHeader(yrs) ==
    <<"Project", "Extension", "Total">> \o yrs
        \o [j \in 1..Min(5, Len(yrs)) |-> AccName[j]]

\* C4: the header is [Project, Extension, Total, the window years,
\* Acc_1..Acc_min(5,Y)] and every generated row has exactly these keys in
\* this order.
C4_SchemaConsistency ==
    \A i \in 1..Len(projects) :
        Analyzed(i) =>
            /\ csv_headers = CanonicalHeader(years)
            /\ \A r \in Range(GenerateCsvData(projects[i]).rows) :
                  r.keys = csv_headers

\* No attempt to write the report has failed
NoOutputFailure ==
    /\ \A k \in 1..Len(opens) : opens[k].outcome \in {"ok", "PermissionError"}
    /\ opens # <<>> => opens[Len(opens)].outcome = "ok"
    /\ \A k \in 1..Len(appends) : appends[k].written = Len(appends[k].rows)

\* The data lines of the report of this run; none when there is no report
ReportLines ==
    IF out_path = NoPath \/ ~fs[out_path].exists THEN <<>>
    ELSE Tail(fs[out_path].lines)

ZeroLine(p, file) ==
    <<<<p.rel_dir, file>>, file[2], 0>>
        \o [j \in 1..Len(years) |-> 0]
        \o [j \in 1..Min(5, Len(years)) |-> 0]

\* C5: a kept project without commit dates is reported, with Total 0 and
\* every year count and accumulator 0.
C5_EmptyHistoryReported ==
    (pc = "done" /\ NoOutputFailure) =>
        \A i \in Range(filtered) :
            DatesWhere(i, LAMBDA d : TRUE) = 0 =>
                \A f \in Range(projects[i].projectfiles) :
                    \E l \in 1..Len(ReportLines) :
                        ReportLines[l] = ZeroLine(projects[i], f)

\* C6: a history query that fails by non-zero exit or spawn failure gives an
\* empty date list, leaves total_modifications at 0 and does not end the
\* run: when the run ends, every kept project has been queried and
\* aggregated.
C6_QueryFailureRecovered ==
    \A q \in 1..Len(queries) :
        LET i == queries[q]
        IN Outcome(i) \in {"CalledProcessError", "OSError"} =>
              /\ ~(pc = "raised_in_query" /\ Cur = i)
              /\ (pc = "tally" /\ Cur = i) => modification_dates = <<>>
              /\ projects[i].total_modifications = 0
              /\ pc = "done" => \A j \in Range(filtered) :
                                   Analyzed(j) /\ j \in Range(queries)

\* The first project's query failed, and the second was still aggregated
C6_Witness ==
    /\ pc = "done"
    /\ Len(filtered) = 2
    /\ Outcome(filtered[1]) = "CalledProcessError"
    /\ queries = filtered
    /\ projects[filtered[2]].total_modifications = 2

\* C7: a history query whose output cannot be decoded gives an empty date
\* list and does not end the run.
C7_DecodeFailureRecovered ==
    \A q \in 1..Len(queries) :
        LET i == queries[q]
        IN Outcome(i) = "UnicodeDecodeError" =>
              /\ ~(pc = "raised_in_query" /\ Cur = i)
              /\ (pc = "tally" /\ Cur = i) => modification_dates = <<>>

\* The lines of the kept projects from position k on whose row keys are the
\* header's
RECURSIVE MatchingLines(_)
MatchingLines(k) ==
    IF k > Len(filtered) THEN <<>>
    ELSE LET gen == GenerateCsvData(projects[filtered[k]])
         IN (IF gen.headers = csv_headers
             THEN CsvLines(csv_headers, gen.rows) ELSE <<>>)
                \o MatchingLines(k + 1)

\* C8: no row whose keys differ from the header is ever handed to the
\* report, and a run that ends with a report and without write failure has
\* written exactly the rows of the projects whose keys match, in order.
C8_SchemaMismatchRecovered ==
    /\ \A k \in 1..Len(appends) :
          \A r \in Range(appends[k].rows) : r.keys = csv_headers
    /\ (pc = "done" /\ out_path # NoPath /\ NoOutputFailure) =>
          fs[out_path].lines = <<csv_headers>> \o MatchingLines(1)

\* Two kept projects whose rows do not fit the header: both were analyzed,
\* the report holds the header alone
C8_Witness ==
    /\ pc = "done"
    /\ write_while_analyze
    /\ Len(filtered) = 2
    /\ queries = filtered
    /\ GenerateCsvData(projects[filtered[1]]).headers # csv_headers
    /\ NoOutputFailure
    /\ fs[out_path].lines = <<csv_headers>>

\* C9: on the same projects, history and window, the buffered and the
\* incremental strategy leave the same files with the same content.
C9_StrategyEquivalence ==
    (/\ prior.runs # <<>>
     /\ pc = "done"
     /\ prior.runs[1].pc = "done"
     /\ NoOutputFailure
     /\ \A k \in 1..Len(prior.runs[1].opens) :
           prior.runs[1].opens[k].outcome = "ok"
     /\ \A k \in 1..Len(prior.runs[1].appends) :
           prior.runs[1].appends[k].written = Len(prior.runs[1].appends[k].rows)
     /\ \A k \in 1..Len(opens) : opens[k].outcome = "ok")
        => fs = prior.runs[1].fs

\* The header could not be written
PrepareFailed ==
    /\ opens # <<>>
    /\ opens[Len(opens)].outcome # "ok"
    /\ ~(Len(opens) = 1 /\ opens[1].outcome = "PermissionError")

\* C10: a permission error on the primary path is followed by exactly one
\* attempt on the timestamped name; after any other failure, or a failure
\* of the second attempt, no attempt follows and no data row is written; a
\* run makes at most two attempts.
C10_OutputPathFallback ==
    /\ Len(opens) <= 2
    /\ opens # <<>> => opens[1].path = PrimaryPath
    /\ Len(opens) = 2 =>
          /\ opens[1].outcome = "PermissionError"
          /\ opens[2].path = AddTimestamp(PrimaryPath)
          /\ opens[2].path # PrimaryPath
    /\ (opens # <<>> /\ opens[1].outcome = "PermissionError" /\ pc # "retry") =>
          Len(opens) = 2
    /\ PrepareFailed =>
          /\ pc = "done"
          /\ result = "False"
          /\ appends = <<>>
          /\ \A path \in Paths : fs[path].lines \in {<<>>, <<<<"stale">>>>, <<csv_headers>>}

\* The primary path was refused, the report is on the timestamped name
C10_Witness ==
    /\ pc = "done"
    /\ Len(opens) = 2
    /\ opens[2].outcome = "ok"
    /\ out_path = AddTimestamp(PrimaryPath)
    /\ result = "True"
    /\ Len(fs[out_path].lines) > 1

\* An append that raised before every line was written
FailedAppend(k) == appends[k].written < Len(appends[k].rows)

\* C11: in both strategies, once appending data rows to the report fails the
\* run aborts at once: the failed append is the last one of the run and no
\* history query is issued after it.
C11_MidWriteFailureFatal ==
    \A k \in 1..Len(appends) :
        FailedAppend(k) =>
            /\ k = Len(appends)
            /\ Len(queries) = appends[k].queried

\* C12: when no project survives discovery and filtering, analyze() returns
\* normally without creating, truncating or writing any file and without
\* issuing any history query.
C12_ZeroProjects ==
    (pc # "start" /\ filtered = <<>>) =>
        /\ pc = "done"
        /\ result = "None"
        /\ fs = prior.fs0
        /\ opens = <<>>
        /\ appends = <<>>
        /\ queries = <<>>

\* Projects were found, all of them were ignored, and the report of an
\* earlier run is still in place
C12_Witness ==
    /\ pc = "done"
    /\ projects # <<>>
    /\ filtered = <<>>
    /\ \E path \in DOMAIN fs : fs[path] = StaleFile

\* Directory dir has segments first..last with exactly n segments between
Between(dir, first, last, n) ==
    LET segs == Segments(dir, <<>>)
    IN /\ Len(segs) = n + 2
       /\ segs[1] = first
       /\ segs[Len(segs)] = last
       /\ \A k \in 1..Len(segs) : segs[k] # <<>>

\* The analyzer has partitioned its projects
Partitioned == pc # "start"

\* Project i is in the ignored set and not among the kept ones
Excluded(i) == i \in Range(ignored) /\ i \notin Range(filtered)

\* Project i is kept
Kept(i) == i \in Range(filtered) /\ i \notin Range(ignored)

\* C13: with the pattern a/**/b the analyzer excludes a project at a/x/b and
\* at a/x/y/b, whatever the segments x and y are.
C13_RecursiveWildcard ==
    (Partitioned /\ ignore_patterns = <<<<"a", "/", "*", "*", "/", "b">>>>) =>
        \A i \in 1..Len(projects) :
            (\E n \in 1..2 : Between(projects[i].rel_dir, <<"a">>, <<"b">>, n))
                => Excluded(i)

\* C14: with the pattern a/*/b the analyzer excludes a project at a/x/b for
\* every segment x, and keeps a project at a/x/y/b.
C14_SingleSegmentWildcard ==
    (Partitioned /\ ignore_patterns = <<<<"a", "/", "*", "/", "b">>>>) =>
        \A i \in 1..Len(projects) :
            /\ Between(projects[i].rel_dir, <<"a">>, <<"b">>, 1) => Excluded(i)
            /\ Between(projects[i].rel_dir, <<"a">>, <<"b">>, 2) => Kept(i)

\* A pattern of literal segments: no wildcard in it
Literal(pat) == \A k \in 1..Len(pat) : pat[k] \notin {"*", "?", "["}

\* dir is the directory pat names or lies beneath it: its leading segments
\* are the segments of pat
AtOrBeneath(dir, pat) ==
    LET d == Segments(dir, <<>>)
        q == Segments(pat, <<>>)
    IN Len(d) >= Len(q) /\ SubSeq(d, 1, Len(q)) = q

\* A row of directory dir has been buffered or handed to the report
Reported(dir) ==
    \/ \E k \in 1..Len(data) : data[k].val["Project"][1] = dir
    \/ \E k \in 1..Len(appends) :
          \E r \in Range(appends[k].rows) : r.val["Project"][1] = dir

C16_LiteralSegmentsExact ==
    Partitioned =>
        \A i \in 1..Len(projects) :
        \A j \in 1..Len(ignore_patterns) :
            LET d == Segments(projects[i].rel_dir, <<>>)
                q == Segments(ignore_patterns[j], <<>>)
            IN (/\ Literal(ignore_patterns[j])
                /\ Len(ignore_patterns) = 1
                /\ \A m \in 0..(Len(d) - Len(q)) : SubSeq(d, m + 1, m + Len(q)) # q)
                   => Kept(i)

\* The files of walk entry k whose extension, lower-cased, is selected
MatchingFiles(k) ==
    {f \in Range(tree[k].filenames) : Lower(f[2]) \in selected_exts}

\* The place of a file name in the order of Python strings
FilePos(f) == CHOOSE k \in 1..Len(FileOrder) : FileOrder[k] = f

\* C17: after discovery every walked directory with at least one file whose
\* extension is, regardless of case, in the selected set has exactly one
\* Project, a directory without such a file has none, and a Project's
\* projectfiles are the matching file names of its directory in sorted
\* order, each once.
C17_Discovery ==
    Partitioned =>
        /\ \A k \in 1..Len(tree) :
              Cardinality({i \in 1..Len(projects) :
                             projects[i].rel_dir = tree[k].dirpath})
                 = IF MatchingFiles(k) # {} THEN 1 ELSE 0
        /\ \A i \in 1..Len(projects) :
              \E k \in 1..Len(tree) :
                 LET pf == projects[i].projectfiles
                 IN /\ tree[k].dirpath = projects[i].rel_dir
                    /\ Range(pf) = MatchingFiles(k)
                    /\ \A a, b \in 1..Len(pf) :
                          a < b => FilePos(pf[a]) < FilePos(pf[b])

\* Only .csproj selected: directory b, holding Lib.vbproj and Lib.CSPROJ, has
\* a Project with the one file Lib.CSPROJ, and the directory without
\* project files has none
C17_Witness ==
    /\ Partitioned
    /\ selected_exts = {".csproj"}
    /\ Len(tree) = 3
    /\ Len(projects) = 2
    /\ projects[2].rel_dir = <<"b">>
    /\ projects[2].projectfiles = <<<<"Lib", ".CSPROJ">>>>

\* Every open and every append of the run recorded in r succeeded
CleanRun(r) ==
    /\ r.pc = "done"
    /\ \A k \in 1..Len(r.opens) : r.opens[k].outcome = "ok"
    /\ \A k \in 1..Len(r.appends) : r.appends[k].written = Len(r.appends[k].rows)

\* C18: two runs over the same tree, history and window that both end
\* without a failed open or append leave the same report content, in
\* whatever order the file system enumerates the directories.
C18_Reproducible ==
    (/\ prior.runs # <<>>
     /\ CleanRun(prior.runs[1])
     /\ CleanRun([pc |-> pc, opens |-> opens, appends |-> appends]))
        => fs = prior.runs[1].fs

\* C19: a run that ends because the output file could not be prepared ends
\* with an outcome its caller can tell apart from success: analyze() does
\* not return as after a successful run, or the process status is not 0.
C19_OutputPathFailureSignalled ==
    (pc = "done" /\ PrepareFailed) =>
        (AnalyzeOutcome # "None" \/ ExitStatus # 0)

\* One of the metadata queries the run issues fails: the branch query, the
\* symbolic-reference query (issued when the branch query printed nothing)
\* or the commit-id query (issued when the ones before it succeeded)
BranchQueryFails == repo.branch.outcome # "ok"

RefQueryFails ==
    /\ repo.branch.outcome = "ok"
    /\ repo.branch.stdout = <<>>
    /\ repo.ref.outcome # "ok"

ShaQueryFails == ~BranchQueryFails /\ ~RefQueryFails /\ repo.sha.outcome # "ok"

\* The file name built from the sentinel pair
SentinelPath ==
    <<"repo", "_", "u", "n", "k", "n", "o", "w", "n", "_",
      "u", "n", "k", "n", "o", "w", "n">>
        \o (IF selected_exts = {".csproj"} THEN <<"_", "csproj">> ELSE <<>>)
        \o <<".csv">>

\* C20: when a repository-metadata query fails, by non-zero exit, spawn
\* failure or decode error, no exception leaves _get_repo_branch_and_head,
\* it returns ("unknown", "unknown"), the output file is opened under the
\* name built from that pair, and a run that ends with a report has
\* written it there.
C20_MetadataFailureRecovered ==
    (BranchQueryFails \/ RefQueryFails \/ ShaQueryFails) =>
        /\ pc # "raised_in_repo_query"
        /\ GetRepoBranchAndHead(repo) =
              [raised |-> "ok", branch |-> Unknown, sha |-> Unknown]
        /\ opens # <<>> => opens[1].path = SentinelPath
        /\ (pc = "done" /\ result = "True") =>
              /\ opens # <<>>
              /\ out_path \in {SentinelPath, AddTimestamp(SentinelPath)}
              /\ fs[out_path].exists
              /\ fs[out_path].lines[1] = csv_headers

\* The commit-id query could not be decoded, and the run has ended with the
\* header and a row in the file named after the sentinels
C20_Witness ==
    /\ repo.branch.outcome = "ok"
    /\ repo.branch.stdout # <<>>
    /\ repo.sha.outcome = "UnicodeDecodeError"
    /\ pc = "done"
    /\ result = "True"
    /\ out_path = SentinelPath
    /\ Len(fs[out_path].lines) > 1

\* The rows handed over so far: buffered in data or passed to an append
RowsSoFar ==
    Range(data) \cup UNION {Range(appends[k].rows) : k \in 1..Len(appends)}

\* The run went through its loop over the kept projects: the buffered
\* strategy aggregates before it prepares the file, the incremental one
\* only after the file was prepared
LoopCompleted ==
    /\ pc = "done"
    /\ filtered # <<>>
    /\ ~write_while_analyze \/ result = "True"

C22_DefaultMarkerSet ==
    LET raw == cli.project_type
        wanted == {NormalizeType(raw[k]) : k \in 1..Len(raw)}
        sel == select_project_types(raw)
    IN (cli.used /\ wanted \subseteq SUPPORTED_TYPES) =>
          /\ pc \notin MainEnded
          /\ pc # "main" =>
                /\ sel.raised = "ok"
                /\ raw = <<>> => Range(sel.value) = SUPPORTED_TYPES
                /\ raw # <<>> => sel.value = SortedTypes(wanted)
                /\ selected_exts = Range(sel.value)

\* C23: a second call of analyze_directory on the same Project, with the
\* same answer of git, leaves total_modifications, every year_counts bucket
\* and every accumulator as the first call left them, and the total is
\* still at least the sum of the buckets.
C23_AggregationIdempotent ==
    (prior.runs # <<>> /\ pc = "emit") =>
        LET first == prior.runs[1].project
            again == projects[Cur]
        IN /\ again.total_modifications = first.total_modifications
           /\ again.year_counts = first.year_counts
           /\ again.accumulators = first.accumulators
           /\ again.total_modifications >= WindowSum(again)

\* C24: once _filter_projects has run, every discovered project is in
\* exactly one of the kept and the ignored list, each list keeps the order
\* of discovery, a project is ignored exactly when some compiled ignore rule
\* matches its root-relative directory, and with no ignore pattern every
\* discovered project is kept.
C24_KeptIgnoredPartition ==
    Partitioned =>
        /\ Range(filtered) \cup Range(ignored) = 1..Len(projects)
        /\ Range(filtered) \cap Range(ignored) = {}
        /\ Len(filtered) + Len(ignored) = Len(projects)
        /\ \A a, b \in 1..Len(filtered) : a < b => filtered[a] < filtered[b]
        /\ \A a, b \in 1..Len(ignored) : a < b => ignored[a] < ignored[b]
        /\ \A i \in 1..Len(projects) :
              Excluded(i) <=>
                  \E k \in 1..Len(ignore_patterns) :
                      RegexSearch(CompileIgnorePattern(ignore_patterns[k]),
                                  projects[i].rel_dir)
        /\ ignore_patterns = <<>> =>
              /\ filtered = [i \in 1..Len(projects) |-> i]
              /\ ignored = <<>>

\* Two projects found, the rule b keeps the first and ignores the second
C24_Witness ==
    /\ Partitioned
    /\ ignore_patterns = <<<<"b">>>>
    /\ Len(projects) = 2
    /\ filtered = <<1>>
    /\ ignored = <<2>>
    /\ projects[2].rel_dir = <<"b">>

\* The lines that the first k appends of the run have written
RECURSIVE AppendedLines(_)
AppendedLines(k) ==
    IF k = 0 THEN <<>>
    ELSE AppendedLines(k - 1)
            \o SubSeq(CsvLines(csv_headers, appends[k].rows), 1, appends[k].written)

\* The header has been written and the report file is being produced
ReportOpened == opens # <<>> /\ opens[Len(opens)].outcome = "ok"

\* C25: in both strategies a report file starts with the header row,
\* written once into the truncated file before any data row; every data
\* row is appended after it to the one path on which the header write
\* succeeded (primary or timestamped, never both), and nothing that path
\* held before the run survives.
C25_HeaderFirst ==
    /\ Cardinality({k \in 1..Len(opens) : opens[k].outcome = "ok"}) <= 1
    /\ appends # <<>> => ReportOpened
    /\ ReportOpened =>
          /\ out_path = opens[Len(opens)].path
          /\ out_path \in {PrimaryPath, AddTimestamp(PrimaryPath)}
          /\ \A k \in 1..Len(appends) : appends[k].path = out_path
          /\ fs[out_path].exists
          /\ fs[out_path].lines = <<csv_headers>> \o AppendedLines(Len(appends))
          /\ \A path \in Paths \ {out_path} : fs[path] \in {NoFile, StaleFile}

\* A finished report that replaced an older file on the primary path
C25_Witness ==
    /\ pc = "done"
    /\ result = "True"
    /\ opens = <<[path |-> PrimaryPath, outcome |-> "ok"]>>
    /\ out_path = PrimaryPath
    /\ Len(appends) >= 1
    /\ fs[PrimaryPath].lines[1] = csv_headers
    /\ Len(fs[PrimaryPath].lines) >= 3

\* A finished report on the timestamped name, the older file left alone
C25_WitnessFallback ==
    /\ pc = "done"
    /\ result = "True"
    /\ Len(opens) = 2
    /\ out_path = AddTimestamp(PrimaryPath)
    /\ fs[PrimaryPath] = StaleFile
    /\ Len(fs[out_path].lines) >= 2

====
